---------------------------- MODULE Spec2Model ----------------------------
(***************************************************************************)
(* Model of bin/pproc.py: a controller that tokenizes a batch of command   *)
(* strings, spawns one child per command with its stdout on a pipe, and    *)
(* multiplexes the children's output with poll()/select()/readline().      *)
(*                                                                         *)
(* The controller is one sequential process whose position is pc; every    *)
(* child is an independent process that writes characters to its pipe and  *)
(* eventually exits.  The text layer that universal_newlines=True puts on  *)
(* the pipe (buffered chunk reads, newline translation) is modelled by     *)
(* what it does.                                                           *)
(*                                                                         *)
(* The module also models the master-passphrase prompt of bin/pwgen.py     *)
(* (Utilities.get_password), a separate program with its own variables     *)
(* and its own specification, PwSpec.                                      *)
(***************************************************************************)
EXTENDS Integers, Sequences, FiniteSets

(* ------------------------------ bounds -------------------------------- *)

\* largest number of command strings in one batch
MaxCmds == 2

\* largest number of characters written by all children together
MaxWrites == 2

\* the same for the runs checked for termination, where what a child wrote
\* matters only through the line terminators that have arrived
LiveWrites == 1

\* largest number of characters typed at one passphrase prompt of pwgen
MaxPwLen == 2

(* ---------------------------- characters ------------------------------ *)

NL == "\n"

CR == "\r"

SP == " "

QUOTE == "'"

\* what a child may write: an ordinary character, a line feed, a carriage return
Alphabet == {"a", NL, CR}

\* exit codes a child may end with
ExitCodes == {0, 1}

\* the command strings of a batch, as sequences of characters:
\*   p          an executable that exists
\*   p 'a a'    the same with a quoted argument
\*   n          an executable that does not exist
\*   p 'a       an unterminated quote
CommandPool ==
    { <<"p">>,
      <<"p", SP, QUOTE, "a", SP, "a", QUOTE>>,
      <<"n">>,
      <<"p", SP, QUOTE, "a">> }

\* the commands of a batch that is executed, not only shown by --debug
RunPool == CommandPool \ { <<"p">> }

Procs == 1..MaxCmds

RECURSIVE SeqsUpTo(_, _)
SeqsUpTo(S, n) ==
    IF n = 0 THEN { <<>> }
    ELSE LET shorter == SeqsUpTo(S, n - 1)
         IN  shorter \cup { Append(s, x) : s \in shorter, x \in S }

Batches == SeqsUpTo(CommandPool, MaxCmds)

RunBatches == SeqsUpTo(RunPool, MaxCmds)

(* ------------------------------ state --------------------------------- *)

VARIABLES
    commands,    \* args.commands: the raw command strings
    debug,       \* args.debug
    pc,          \* position of the controller
    status,      \* exit status of the program, -1 while it runs
    raised,      \* exception that left execute, "None" if none
    argvs,       \* commands after tokenize
    k,           \* index of the comprehension / debug loop over commands
    procs,       \* the process list of execute
    i,           \* index of the list iterator of `for p in procs`
    rlist,       \* result of select
    j,           \* index of `for f in rlist`
    child,       \* per child: "unborn", "running", "exited"
    returncode,  \* per child: Popen.returncode, -1 for None; the exit code
                 \* of a child is whatever poll() finds when it reaps it
    pipe,        \* per child: characters written and not yet read from the fd
    buf,         \* per child: decoded characters held by the text wrapper
    pendingcr,   \* per child: the newline decoder holds back a carriage return
    closed,      \* per child: p.stdout.close() was called
    written,     \* per child: everything it ever wrote (history)
    out,         \* the controller's stdout: sequence of fragments
    terminated,  \* the children the controller has called terminate() or
                 \* kill() on
    pass,        \* history of the removal pass in progress: "owed" when the
                 \* list held an exited process as the pass began and nothing
                 \* has been removed yet, "paid" once the pass has removed a
                 \* process, "none" otherwise and outside a pass
    password_master, \* pwgen: settings.password_master, the default of the
                     \* confirm parameter of every get_password frame
    pwpc,        \* pwgen: position of get_password: "idle" (not called),
                 \* "getpass", "check", "returned", "raised"
    attempts,    \* pwgen: the attempts parameter of the innermost frame
    password,    \* pwgen: the local password of the innermost frame
    confirm,     \* pwgen: the local confirm of the innermost frame
    pwraised,    \* pwgen: which ConsoleError left get_password, or "None"
    mismatches,  \* pwgen: failed confirmations so far (history)
    prompts      \* pwgen: "Enter master passphrase" prompts so far (history)

procVars == << commands, debug, pc, status, raised, argvs, k, procs, i, rlist,
              j, child, returncode, pipe, buf, pendingcr, closed, written,
              out, terminated, pass >>

pwVars == << password_master, pwpc, attempts, password, confirm, pwraised,
             mismatches, prompts >>

vars == << commands, debug, pc, status, raised, argvs, k, procs, i, rlist, j,
           child, returncode, pipe, buf, pendingcr, closed,
           written, out, terminated, pass, pwVars >>

ctlVars == << pc, status, raised, argvs, k, procs, i, rlist, j >>

ioVars == << pipe, buf, pendingcr, closed, returncode, out >>

histVars == << terminated, pass >>

childVars == << child, written >>

(* --------------------------- sequence helpers -------------------------- *)

Front(s) == SubSeq(s, 1, Len(s) - 1)

HasNL(s) == \E n \in 1..Len(s) : s[n] = NL

\* position of the first line feed of s (s has one)
FirstNL(s) == CHOOSE n \in 1..Len(s) : s[n] = NL /\ \A m \in 1..(n - 1) : s[m] # NL

\* a removal that leaves the list as it is
Remove_Nothing(s, x) == s

\* the list without its first occurrence of x (list.remove)
Remove(s, x) ==
    LET n == CHOOSE m \in 1..Len(s) : s[m] = x /\ \A l \in 1..(m - 1) : s[l] # x
    IN  SubSeq(s, 1, n - 1) \o SubSeq(s, n + 1, Len(s))

RECURSIVE SumLen(_, _)
SumLen(f, S) ==
    IF S = {} THEN 0
    ELSE LET x == CHOOSE y \in S : TRUE
         IN  Len(f[x]) + SumLen(f, S \ {x})

(* ------------------------------ tokenizer ------------------------------ *)

\* shlex.split on one command string: whitespace separates tokens, single
\* quotes group, an unterminated quote is an error ("No closing quotation")
RECURSIVE Lex(_, _, _, _, _, _)
Lex(s, n, tok, inTok, inQuote, toks) ==
    IF n > Len(s)
    THEN IF inQuote THEN [ok |-> FALSE, argv |-> <<>>]
         ELSE [ok |-> TRUE, argv |-> IF inTok THEN Append(toks, tok) ELSE toks]
    ELSE LET ch == s[n]
         IN  IF inQuote
             THEN IF ch = QUOTE
                  THEN Lex(s, n + 1, tok, TRUE, FALSE, toks)
                  ELSE Lex(s, n + 1, Append(tok, ch), TRUE, TRUE, toks)
             ELSE IF ch = QUOTE
                  THEN Lex(s, n + 1, tok, TRUE, TRUE, toks)
                  ELSE IF ch = SP
                       THEN Lex(s, n + 1, <<>>, FALSE, FALSE,
                                IF inTok THEN Append(toks, tok) ELSE toks)
                       ELSE Lex(s, n + 1, Append(tok, ch), TRUE, FALSE, toks)

split(s) == Lex(s, 1, <<>>, FALSE, FALSE, <<>>)

\* a tokenize that stops at the first malformed command without raising
tokenize_prefix(cmds) ==
    LET good == { n \in 0..Len(cmds) : \A m \in 1..n : split(cmds[m]).ok }
        last == CHOOSE n \in good : \A m \in good : m <= n
    IN  [ok |-> TRUE, argvs |-> [n \in 1..last |-> split(cmds[n]).argv]]

\* list(tokenize(commands)): every command is split, in order; the first
\* malformed command raises and nothing is returned
tokenize(cmds) ==
    IF \E n \in 1..Len(cmds) : ~split(cmds[n]).ok
    THEN [ok |-> FALSE, argvs |-> <<>>]
    ELSE [ok |-> TRUE, argvs |-> [n \in 1..Len(cmds) |-> split(cmds[n]).argv]]

\* repr of a list of strings: ['p', 'a a']
RECURSIVE ReprItems(_, _)
ReprItems(argv, n) ==
    IF n > Len(argv) THEN <<>>
    ELSE (IF n > 1 THEN <<",", SP>> ELSE <<>>)
         \o <<QUOTE>> \o argv[n] \o <<QUOTE>> \o ReprItems(argv, n + 1)

Repr(argv) == <<"[">> \o ReprItems(argv, 1) \o <<"]">>

\* Popen finds the executable named by argv[0]
CanSpawn(argv) == argv # <<>> /\ argv[1] = <<"p">>

(* ------------------------------ text layer ----------------------------- *)

\* universal newlines: \r\n and a lone \r are read as \n
RECURSIVE Translate(_)
Translate(s) ==
    IF s = <<>> THEN <<>>
    ELSE IF Head(s) = CR
         THEN IF Len(s) > 1 /\ s[2] = NL
              THEN <<NL>> \o Translate(Tail(Tail(s)))
              ELSE <<NL>> \o Translate(Tail(s))
         ELSE <<Head(s)>> \o Translate(Tail(s))

\* one chunk through the incremental newline decoder: a trailing \r is held
\* back until the next chunk shows whether a \n follows, unless final
Decode(pending, chunk, final) ==
    LET input == IF pending THEN <<CR>> \o chunk ELSE chunk
        hold  == ~final /\ input # <<>> /\ input[Len(input)] = CR
    IN  [text    |-> Translate(IF hold THEN Front(input) ELSE input),
         pending |-> hold]

\* a read that returns what is buffered and leaves the rest of the pipe
ReadAll_NoTail(c) == buf[c]

\* p.stdout.read(): what is buffered plus the rest of the pipe to end of stream
ReadAll(c) == buf[c] \o Decode(pendingcr[c], pipe[c], TRUE).text

\* the decimal digits a process id is written with
Digits == <<"1", "2", "3", "4", "5", "6", "7", "8", "9">>

\* pprint: "[{}] out: {}".format(pid, text), the tagged form of a fragment
pprint(c, text) ==
    <<"[", Digits[c], "]", SP, "o", "u", "t", ":", SP>> \o text

\* print(text, end=''): an empty text writes nothing
Emit(o, c, text) == IF text = <<>> THEN o ELSE Append(o, [src |-> c, text |-> text])

(* ------------------------------- Init ---------------------------------- *)

\* None, as the value of settings.password_master: `confirm or getpass()`
\* treats None and the empty string alike, and both are the empty sequence
None == <<>>

\* pwgen at rest: get_password has not been called, password_master has its
\* class default
PwIdle ==
    /\ password_master = None
    /\ pwpc = "idle"
    /\ attempts = 0
    /\ password = <<>>
    /\ confirm = <<>>
    /\ pwraised = "None"
    /\ mismatches = 0
    /\ prompts = 0

\* the program as main is entered, whatever its arguments
ProgramStart ==
    /\ pc = "parse_args"
    /\ status = -1
    /\ raised = "None"
    /\ argvs = <<>>
    /\ k = 1
    /\ procs = <<>>
    /\ i = 1
    /\ rlist = <<>>
    /\ j = 1
    /\ child = [c \in Procs |-> "unborn"]
    /\ returncode = [c \in Procs |-> -1]
    /\ pipe = [c \in Procs |-> <<>>]
    /\ buf = [c \in Procs |-> <<>>]
    /\ pendingcr = [c \in Procs |-> FALSE]
    /\ closed = [c \in Procs |-> FALSE]
    /\ written = [c \in Procs |-> <<>>]
    /\ out = <<>>
    /\ terminated = {}
    /\ pass = "none"

Init ==
    /\ PwIdle
    /\ debug \in BOOLEAN
    /\ commands \in (IF debug THEN Batches ELSE RunBatches)
    /\ ProgramStart

(* ------------------------------ children ------------------------------- *)

\* a running child writes one character to its stdout (the model follows the
\* children until the program has exited)
ChildWrite(c) ==
    /\ pc # "exit"
    /\ child[c] = "running"
    /\ SumLen(written, Procs) < MaxWrites
    /\ \E ch \in Alphabet :
          /\ pipe' = [pipe EXCEPT ![c] = Append(@, ch)]
          /\ written' = [written EXCEPT ![c] = Append(@, ch)]
    /\ UNCHANGED << pwVars, commands, debug, ctlVars, child, returncode,
                    buf, pendingcr, closed, out, histVars >>

\* a running child exits, which closes the write end of its pipe; its exit
\* code is seen by nobody until poll() reaps it
ChildExit(c) ==
    /\ pc # "exit"
    /\ child[c] = "running"
    /\ child' = [child EXCEPT ![c] = "exited"]
    /\ UNCHANGED << pwVars, commands, debug, ctlVars, returncode, pipe, buf,
                    pendingcr, closed, written, out, histVars >>

(* ----------------------------- controller ------------------------------ *)

\* an exit status that propagates a failing child
ExitStatus_Propagate == IF \E c \in Procs : returncode[c] > 0 THEN 1 ELSE 0

\* parser.exit(0)
ExitStatus == 0

\* parser.error and argparse's own errors exit with status 2
ErrorStatus == 2

\* parser.parse_args(): nargs="+" rejects an empty command list with
\* SystemExit(2), which `except Exception` does not catch
ParseArgs ==
    /\ pc = "parse_args"
    /\ IF Len(commands) = 0
       THEN pc' = "exit" /\ status' = ErrorStatus
       ELSE pc' = "tokenize" /\ status' = status
    /\ UNCHANGED << pwVars, commands, debug, raised, argvs, k, procs, i, rlist, j,
                    childVars, ioVars, histVars >>

\* a debug branch that splits each command as it reaches it: the well-formed
\* commands before the first malformed one are handed to the printing loop
Tokenize_Lazy ==
    /\ pc = "tokenize"
    /\ LET r == tokenize(commands)
           q == tokenize_prefix(commands)
       IN  IF r.ok \/ debug
           THEN /\ argvs' = q.argvs
                /\ raised' = raised
                /\ pc' = IF debug THEN "debug_print" ELSE "spawn"
           ELSE /\ argvs' = argvs
                /\ raised' = "ValueError"
                /\ pc' = "except"
    /\ k' = 1
    /\ UNCHANGED << pwVars, commands, debug, status, procs, i, rlist, j,
                    childVars, ioVars, histVars >>

\* commands = list(tokenize(commands)), then the branch on debug
Tokenize ==
    /\ pc = "tokenize"
    /\ LET r == tokenize(commands)
       IN  IF r.ok
           THEN /\ argvs' = r.argvs
                /\ raised' = raised
                /\ pc' = IF debug THEN "debug_print" ELSE "spawn"
           ELSE /\ argvs' = argvs
                /\ raised' = "ValueError"
                /\ pc' = "except"
    /\ k' = 1
    /\ UNCHANGED << pwVars, commands, debug, status, procs, i, rlist, j,
                    childVars, ioVars, histVars >>

\* a debug branch without its return
AfterDebug_NoReturn == "spawn"

\* the `return` that ends the debug branch
AfterDebug == "returned"

\* for command in commands: print(repr(command)); then return
DebugEcho ==
    /\ pc = "debug_print"
    /\ IF k <= Len(argvs)
       THEN /\ out' = Append(out, [src |-> 0, text |-> Repr(argvs[k]) \o <<NL>>])
            /\ k' = k + 1
            /\ pc' = pc
       ELSE /\ out' = out
            /\ k' = k
            /\ pc' = AfterDebug
    /\ UNCHANGED << pwVars, commands, debug, status, raised, argvs, procs, i, rlist, j,
                    childVars, pipe, buf, pendingcr, closed, returncode,
                    histVars >>

\* procs = [Popen(cmd, **kwds) for cmd in commands]: one Popen per step; the
\* list is bound to procs only when every Popen has succeeded, and a Popen
\* that raises leaves the comprehension and execute
Spawn ==
    /\ pc = "spawn"
    /\ IF k <= Len(argvs)
       THEN IF CanSpawn(argvs[k])
            THEN /\ child' = [child EXCEPT ![k] = "running"]
                 /\ k' = k + 1
                 /\ UNCHANGED << pc, raised, procs >>
            ELSE /\ raised' = "FileNotFoundError"
                 /\ pc' = "except"
                 /\ UNCHANGED << child, k, procs >>
       ELSE /\ procs' = [n \in 1..Len(argvs) |-> n]
            /\ pc' = "while"
            /\ UNCHANGED << child, k, raised >>
    /\ UNCHANGED << pwVars, commands, debug, status, argvs, i, rlist, j,
                    written, ioVars, histVars >>

\* a loop that stops with one process left
WhileCond_OneLeft(ps) == Len(ps) > 1

\* while procs:
WhileCond(ps) == ps # <<>>

\* a list iterator that starts at the second entry
FirstIndex_Second == 1 + 1

\* `for p in procs` starts a list iterator at the first entry
FirstIndex == 1

While ==
    /\ pc = "while"
    /\ IF WhileCond(procs)
       THEN /\ pc' = "for_p"
            /\ i' = FirstIndex
            /\ pass' = IF \E n \in 1..Len(procs) : child[procs[n]] = "exited"
                       THEN "owed" ELSE "none"
       ELSE /\ pc' = "returned"
            /\ i' = i
            /\ pass' = pass
    /\ UNCHANGED << pwVars, commands, debug, status, raised, argvs, k, procs, rlist, j,
                    childVars, ioVars, terminated >>

\* a poll that reports every process as ended
poll_Always(p) == TRUE

\* p.poll() is not None: the child has exited
poll(p) == child[p] = "exited"

\* a removal that gives up on the whole list when a child has failed
Reap_AbortOnFailure(ps, p, code) == IF code # 0 THEN <<>> ELSE Remove(ps, p)

\* procs.remove(p): the exit code of p plays no part
Reap(ps, p, code) == Remove(ps, p)

\* one step of `for p in procs`: the list iterator yields procs[i] and
\* advances; a process whose poll() reports an exit is drained with read(),
\* its stream closed and the process removed from the list being iterated
ForP ==
    /\ pc = "for_p"
    /\ IF i <= Len(procs)
       THEN LET p == procs[i]
            IN  /\ i' = i + 1
                /\ pc' = pc
                /\ IF poll(p)
                   THEN /\ \E code \in ExitCodes :
                             /\ returncode' = [returncode EXCEPT ![p] = code]
                             /\ procs' = Reap(procs, p, code)
                        /\ pass' = "paid"
                        /\ out' = Emit(out, p, ReadAll(p))
                        /\ pipe' = [pipe EXCEPT ![p] = <<>>]
                        /\ buf' = [buf EXCEPT ![p] = <<>>]
                        /\ pendingcr' = [pendingcr EXCEPT ![p] = FALSE]
                        /\ closed' = [closed EXCEPT ![p] = TRUE]
                   ELSE UNCHANGED << returncode, out, pipe, buf, pendingcr,
                                     closed, procs, pass >>
       ELSE /\ pc' = "select"
            /\ pass' = "none"
            /\ UNCHANGED << i, returncode, out, pipe, buf, pendingcr,
                            closed, procs >>
    /\ UNCHANGED << pwVars, commands, debug, status, raised, argvs, k, rlist, j,
                    childVars, terminated >>

\* the fd of a stream is readable: data in the pipe, or end of stream
Readable(c) == pipe[c] # <<>> \/ child[c] = "exited"

RECURSIVE Filter(_, _)
Filter(s, n) ==
    IF n > Len(s) THEN <<>>
    ELSE (IF Readable(s[n]) THEN <<s[n]>> ELSE <<>>) \o Filter(s, n + 1)

\* a select whose expiry drops the processes it waited for
Select_DropOnTimeout ==
    /\ pc = "select"
    /\ rlist' = Filter(procs, 1)
    /\ procs' = IF Filter(procs, 1) = <<>> THEN <<>> ELSE procs
    /\ j' = 1
    /\ pc' = "for_f"
    /\ UNCHANGED << pwVars, commands, debug, status, raised, argvs, k, i,
                    childVars, ioVars, histVars >>

\* rlist = select([p.stdout for p in procs], [], [], timeout)[0]: returns
\* the streams readable at the moment it returns; the empty list is the
\* expiry of the timeout
Select ==
    /\ pc = "select"
    /\ rlist' = Filter(procs, 1)
    /\ j' = 1
    /\ pc' = "for_f"
    /\ UNCHANGED << pwVars, commands, debug, status, raised, argvs, k, procs, i,
                    childVars, ioVars, histVars >>

\* a readline that returns on a line terminator only
ReadlineReady_LineOnly(c) ==
    \/ HasNL(buf[c])
    \/ HasNL(buf[c] \o Decode(pendingcr[c], pipe[c], FALSE).text)

\* f.readline() can return: a line is buffered, or the pipe completes one,
\* or the stream is at its end; otherwise it waits for the child
ReadlineReady(c) ==
    \/ HasNL(buf[c])
    \/ HasNL(buf[c] \o Decode(pendingcr[c], pipe[c], FALSE).text)
    \/ child[c] = "exited"

\* the result of f.readline(): [line, buf, pendingcr, pipe] afterwards
Readline(c) ==
    IF HasNL(buf[c])
    THEN [line |-> SubSeq(buf[c], 1, FirstNL(buf[c])),
          buf  |-> SubSeq(buf[c], FirstNL(buf[c]) + 1, Len(buf[c])),
          pendingcr |-> pendingcr[c],
          pipe |-> pipe[c]]
    ELSE LET d == Decode(pendingcr[c], pipe[c], FALSE)
             t == buf[c] \o d.text
         IN  IF HasNL(t)
             THEN [line |-> SubSeq(t, 1, FirstNL(t)),
                   buf  |-> SubSeq(t, FirstNL(t) + 1, Len(t)),
                   pendingcr |-> d.pending,
                   pipe |-> <<>>]
             ELSE [line |-> ReadAll(c),
                   buf  |-> <<>>,
                   pendingcr |-> FALSE,
                   pipe |-> <<>>]

\* one step of `for f in rlist: print(f.readline(), end='')`
ForF ==
    /\ pc = "for_f"
    /\ IF j <= Len(rlist)
       THEN LET f == rlist[j]
                r == Readline(f)
            IN  /\ ReadlineReady(f)
                /\ out' = Emit(out, f, r.line)
                /\ buf' = [buf EXCEPT ![f] = r.buf]
                /\ pendingcr' = [pendingcr EXCEPT ![f] = r.pendingcr]
                /\ pipe' = [pipe EXCEPT ![f] = r.pipe]
                /\ j' = j + 1
                /\ pc' = pc
       ELSE /\ pc' = "while"
            /\ UNCHANGED << out, buf, pendingcr, pipe, j >>
    /\ UNCHANGED << pwVars, commands, debug, status, raised, argvs, k, procs, i, rlist,
                    childVars, closed, returncode, histVars >>

\* execute returned: parser.exit(0)
Exit ==
    /\ pc = "returned"
    /\ status' = ExitStatus
    /\ pc' = "exit"
    /\ UNCHANGED << pwVars, commands, debug, raised, argvs, k, procs, i, rlist, j,
                    childVars, ioVars, histVars >>

\* except Exception as e: parser.error(str(e)) prints the message and
\* exits with status 2
Except ==
    /\ pc = "except"
    /\ status' = ErrorStatus
    /\ pc' = "exit"
    /\ UNCHANGED << pwVars, commands, debug, raised, argvs, k, procs, i, rlist, j,
                    childVars, ioVars, histVars >>

Controller ==
    \/ ParseArgs
    \/ Tokenize
    \/ DebugEcho
    \/ Spawn
    \/ While
    \/ ForP
    \/ Select
    \/ ForF
    \/ Exit
    \/ Except

Next ==
    \/ Controller
    \/ \E c \in Procs : ChildWrite(c)
    \/ \E c \in Procs : ChildExit(c)

Spec == Init /\ [][Next]_vars

(* ----------------------------- environment ----------------------------- *)

\* a termination signal reaches the controller while it supervises live
\* children: SIGINT raises KeyboardInterrupt, which `except Exception` does
\* not catch, and SIGTERM has no handler; either way the program is gone
\* (status 130 or 143) and no statement of it has touched a child
Signal ==
    /\ pc \in {"spawn", "while", "for_p", "select", "for_f"}
    /\ \E c \in Procs : child[c] = "running"
    /\ raised' = "KeyboardInterrupt"
    /\ status' \in {130, 143}
    /\ pc' = "exit"
    /\ UNCHANGED << pwVars, commands, debug, argvs, k, procs, i, rlist, j,
                    childVars, ioVars, histVars >>

\* a read of a child's stream raises (an OSError, or the UnicodeDecodeError
\* of an undecodable byte): p.stdout.read() of the removal pass or
\* f.readline() of the read loop; nothing in execute catches it
ReadError ==
    /\ \/ pc = "for_p" /\ i <= Len(procs) /\ poll(procs[i])
       \/ pc = "for_f" /\ j <= Len(rlist)
    /\ raised' = "OSError"
    /\ pc' = "except"
    /\ UNCHANGED << pwVars, commands, debug, status, argvs, k, procs, i, rlist, j,
                    childVars, ioVars, histVars >>

EnvNext ==
    \/ Next
    \/ Signal
    \/ ReadError

\* the program in an environment that sends signals and fails reads
EnvSpec == Init /\ [][EnvNext]_vars

\* ChildWrite within the write budget of the termination runs
LiveChildWrite(c) == ChildWrite(c) /\ SumLen(written', Procs) <= LiveWrites

LiveNext ==
    \/ Controller
    \/ \E c \in Procs : LiveChildWrite(c)
    \/ \E c \in Procs : ChildExit(c)

\* the controller is a running process: it takes its next step whenever it
\* is not waiting for a child; nothing is assumed of the children
FairSpec == Init /\ [][LiveNext]_vars /\ WF_vars(Controller)


(* ------------------------- pwgen: get_password ------------------------- *)

\* the characters of a passphrase
PwAlphabet == {"a", SP}

\* str.strip(): leading and trailing whitespace removed
RECURSIVE strip(_)
strip(s) ==
    IF s = <<>> THEN <<>>
    ELSE IF Head(s) = SP THEN strip(Tail(s))
    ELSE IF s[Len(s)] = SP THEN strip(Front(s))
    ELSE s

\* get_device(): the identifier derived from the machine's node id, one
\* fixed string on one machine
get_device == <<"D">>

\* encode_password: base64 of the SHA-256 digest, taken as collision free;
\* an encoding is a string of its own, equal to no passphrase of PwAlphabet
encode_password(s) == <<"#">> \o s

\* what `pwgen config` stores for a master passphrase m
Master(m) == encode_password(get_device \o m)

\* what getpass() can return: anything typed, or a stored hash pasted
Typed == SeqsUpTo(PwAlphabet, MaxPwLen) \cup {Master(<<"a">>)}

\* the values settings.password_master is loaded with
Masters == {None, Master(<<"a">>)}

\* confirm_password: direct comparison, then comparison of the encoding
confirm_password(pw, cf) ==
    \/ pw = cf
    \/ Master(pw) = cf

\* a retry limit one attempt larger
MaxAttempts_Four == 3 + 1

\* the largest value of attempts at which a mismatch prompts again
MaxAttempts == 3

\* get_password is called by a command handler with its defaults
PwInit ==
    /\ password_master \in Masters
    /\ pwpc = "getpass"
    /\ attempts = 0
    /\ password = <<>>
    /\ confirm = <<>>
    /\ pwraised = "None"
    /\ mismatches = 0
    /\ prompts = 0
    /\ debug = FALSE
    /\ commands = <<>>
    /\ ProgramStart

\* the two prompts of one frame: the passphrase, and the confirmation only
\* when no master hash is configured
GetPass ==
    /\ pwpc = "getpass"
    /\ \E p \in Typed : password' = strip(p)
    /\ IF password_master # None
       THEN confirm' = password_master
       ELSE \E c \in Typed : confirm' = strip(c)
    /\ prompts' = prompts + 1
    /\ pwpc' = "check"
    /\ UNCHANGED << password_master, attempts, pwraised, mismatches >>
    /\ UNCHANGED procVars

\* the rest of the frame: a failed confirmation calls get_password again
\* with attempts + 1 (a new frame, whose locals are not yet bound) or
\* raises; a confirmed passphrase is returned through every frame unless it
\* is empty
CheckPass ==
    /\ pwpc = "check"
    /\ IF ~confirm_password(password, confirm)
       THEN /\ mismatches' = mismatches + 1
            /\ IF attempts <= MaxAttempts
               THEN /\ attempts' = attempts + 1
                    /\ password' = <<>>
                    /\ confirm' = <<>>
                    /\ pwpc' = "getpass"
                    /\ pwraised' = pwraised
               ELSE /\ pwraised' = "maximum"
                    /\ pwpc' = "raised"
                    /\ UNCHANGED << attempts, password, confirm >>
       ELSE /\ IF password = <<>>
               THEN pwraised' = "empty" /\ pwpc' = "raised"
               ELSE pwraised' = pwraised /\ pwpc' = "returned"
            /\ UNCHANGED << attempts, password, confirm, mismatches >>
    /\ UNCHANGED << password_master, prompts >>
    /\ UNCHANGED procVars

PwNext ==
    \/ GetPass
    \/ CheckPass

PwSpec == PwInit /\ [][PwNext]_vars

(* ------------------------- derived quantities -------------------------- *)

\* what the combined output holds of child c, in output order
RECURSIVE OutFrom(_, _, _)
OutFrom(o, c, n) ==
    IF n > Len(o) THEN <<>>
    ELSE (IF o[n].src = c THEN o[n].text ELSE <<>>) \o OutFrom(o, c, n + 1)

OutOf(c) == OutFrom(out, c, 1)

Spawned(c) == child[c] # "unborn"

InList(c) == \E n \in 1..Len(procs) : procs[n] = c

Malformed(cmds) == \E n \in 1..Len(cmds) : ~split(cmds[n]).ok

LoopPositions == {"spawn", "while", "for_p", "select", "for_f"}

\* the controller is inside readline and cannot return from it
Suspended == pc = "for_f" /\ j <= Len(rlist) /\ ~ReadlineReady(rlist[j])

(* ------------------------------- claims -------------------------------- *)

\* C1 (as stated): when execute returns, the combined output holds for each
\* child exactly the characters the child wrote, in the child's order.
C1_BytesVerbatim ==
    pc = "returned" => \A c \in Procs : OutOf(c) = written[c]

\* C1 (amended): when execute returns, the combined output holds for each
\* child exactly the characters the child wrote, in the child's order, with
\* every \r\n and every lone \r read as \n; nothing else is dropped,
\* duplicated or reordered, whatever was still buffered at the child's exit.
C1_TextPreserved ==
    pc = "returned" => \A c \in Procs : OutOf(c) = Translate(written[c])

\* two children have written, one of them a carriage return, and execute
\* has returned
C1_Witness ==
    /\ pc = "returned"
    /\ \E c, d \in Procs :
          /\ c # d
          /\ \E n \in 1..Len(written[c]) : written[c][n] = CR
          /\ written[d] # <<>>

\* C2: execute returns only with an empty process list, every spawned child
\* observed as exited, read to the end of its stream, printed, closed and
\* removed from the list.
C2_ReturnsOnlyWhenDrained ==
    pc = "returned" =>
        /\ procs = <<>>
        /\ \A c \in Procs : Spawned(c) =>
              /\ child[c] = "exited"
              /\ returncode[c] \in ExitCodes
              /\ pipe[c] = <<>> /\ buf[c] = <<>> /\ ~pendingcr[c]
              /\ closed[c]
              /\ OutOf(c) = Translate(written[c])

\* execute has returned from the poll loop of a batch of two children
C2_Witness ==
    pc = "returned" /\ \A c \in 1..2 : Spawned(c) /\ closed[c]

\* C3: when one command fails to spawn, every other command is still
\* spawned, runs to completion and has its output in the combined stream.
C3_OthersStillRun ==
    (pc = "exit" /\ raised = "FileNotFoundError") =>
        \A n \in 1..Len(argvs) : CanSpawn(argvs[n]) =>
            child[n] = "exited" /\ OutOf(n) = Translate(written[n])

\* C4: a batch with a malformed command, at any position, never creates a
\* process, and the run ends with the tokenization error.
C4_NoSpawnWhenMalformed ==
    Malformed(commands) =>
        /\ \A c \in Procs : ~Spawned(c)
        /\ pc \notin LoopPositions
        /\ pc = "exit" => raised = "ValueError"

\* the run has ended with the tokenization error although a well-formed
\* command that could be spawned precedes the malformed one
C4_Witness ==
    /\ pc = "exit" /\ raised = "ValueError"
    /\ Len(commands) >= 2
    /\ split(commands[1]).ok /\ CanSpawn(split(commands[1]).argv)
    /\ ~split(commands[2]).ok

\* C5: in debug mode a batch of well-formed commands prints one argv
\* representation per command in input order, spawns nothing, never enters
\* the poll loop, and the program exits with status 0.
C5_DebugOnlyPrints ==
    (debug /\ ~Malformed(commands)) =>
        /\ \A c \in Procs : ~Spawned(c)
        /\ pc \notin LoopPositions
        /\ Len(out) <= Len(commands)
        /\ \A n \in 1..Len(out) :
              out[n] = [src |-> 0, text |-> Repr(split(commands[n]).argv) \o <<NL>>]
        /\ pc \in {"returned", "exit"} => Len(out) = Len(commands)
        /\ pc = "exit" => (status = 0 <=> commands # <<>>)

\* debug mode has exited after printing ['p'] and then ['p', 'a a']
C5_Witness ==
    /\ debug /\ pc = "exit" /\ status = 0
    /\ commands = << <<"p">>, <<"p", SP, QUOTE, "a", SP, "a", QUOTE>> >>
    /\ out = << [src |-> 0, text |-> <<"[", "'", "p", "'", "]", NL>>],
                [src |-> 0, text |-> <<"[", "'", "p", "'", ",", " ",
                                         "'", "a", " ", "a", "'", "]", NL>>] >>

\* C6: the controller never suspends anywhere but in the readiness wait: it
\* is never inside a read that waits on one child.
C6_OnlySelectSuspends == ~Suspended

\* C7: if every spawned child eventually exits, execute eventually returns
\* with an empty process list.
C7_EventuallyReturns ==
    (/\ ~debug
     /\ ~Malformed(commands)
     /\ \A n \in 1..Len(commands) : CanSpawn(split(commands[n]).argv)
     /\ commands # <<>>
     /\ \A c \in Procs : <>[](child[c] # "running"))
    => <>(pc = "returned" /\ procs = <<>>)

\* execute has returned from a batch of two children, one of which wrote
\* nothing at all
C7_Witness ==
    /\ pc = "returned" /\ ~debug
    /\ Spawned(1) /\ Spawned(2)
    /\ \E c \in 1..2 : written[c] = <<>>

\* C8: the program exits with status 0 once the poll loop has completed,
\* whatever the children's exit codes, and with a non-zero status when
\* argument parsing fails or execute raises.
C8_ExitStatus ==
    pc = "exit" =>
        /\ (commands # <<>> /\ raised = "None") => status = 0
        /\ (commands = <<>> \/ raised # "None") => status > 0

\* the program has exited with status 0 after a child exited with status 1
C8_Witness ==
    pc = "exit" /\ status = 0 /\ \E c \in Procs : returncode[c] = 1

\* C9: a readiness wait that expires with an empty ready set, and the read
\* loop over that empty set, consume no character of any stream, print
\* nothing and remove or close no process.
C9_TimeoutChangesNothing ==
    [][ (\/ pc = "select" /\ pc' = "for_f" /\ rlist' = <<>>
         \/ pc = "for_f" /\ rlist = <<>> /\ pc' # pc)
        => /\ pipe' = pipe /\ buf' = buf /\ pendingcr' = pendingcr
           /\ out' = out
           /\ procs' = procs /\ closed' = closed
           /\ returncode' = returncode ]_vars

\* the wait has just expired on a live child that has written before and
\* has nothing in its pipe now
C9_Witness ==
    /\ pc = "for_f" /\ rlist = <<>>
    /\ \E c \in Procs :
          InList(c) /\ child[c] = "running" /\ written[c] # <<>> /\ pipe[c] = <<>>

\* C10: whenever execute has been left, by return or by an exception, every
\* spawned child has its stream closed, has been reaped and is in no list.
C10_NoLeakOnExit ==
    pc \in {"returned", "except", "exit"} =>
        \A c \in Procs : Spawned(c) =>
            closed[c] /\ returncode[c] >= 0 /\ ~InList(c)


(* ---------------------- claims on the poll loop ------------------------ *)

InListNext(c) == \E n \in 1..Len(procs') : procs'[n] = c

\* the fragment begins with the tag of the process it came from
Tagged(frag) ==
    LET tag == pprint(frag.src, <<>>)
    IN  Len(frag.text) >= Len(tag) /\ SubSeq(frag.text, 1, Len(tag)) = tag

\* C11: when a termination signal ends the controller while children are
\* live, it has called terminate on every child that is still live.
C11_SignalTerminatesChildren ==
    (pc = "exit" /\ raised = "KeyboardInterrupt") =>
        \A c \in Procs : child[c] = "running" => c \in terminated

\* C12: every fragment of a child's output in the combined stream carries
\* the process id of the child that produced it.
C12_FragmentsTagged ==
    \A n \in 1..Len(out) : out[n].src > 0 => Tagged(out[n])

\* C13: the step that reaps a child with a non-zero exit code touches no
\* other child: none is killed, removed from the list or closed, none has
\* its stream read, and the removal pass goes on.
C13_FailureIsLocal ==
    [][ \A p \in Procs :
          (returncode[p] < 0 /\ returncode'[p] > 0) =>
              /\ pc' = "for_p"
              /\ terminated' = terminated
              /\ \A d \in Procs \ {p} :
                    /\ InListNext(d) <=> InList(d)
                    /\ closed'[d] = closed[d]
                    /\ child'[d] = child[d]
                    /\ returncode'[d] = returncode[d]
                    /\ pipe'[d] = pipe[d] /\ buf'[d] = buf[d] ]_vars

\* a child has been reaped with exit code 1 while another child is still
\* running, in the list, with its stream open
C13_Witness ==
    \E p, d \in Procs :
        /\ returncode[p] = 1
        /\ InList(d) /\ child[d] = "running" /\ ~closed[d]

\* C14: a step of the removal pass leaves every entry it has not yet visited
\* in front of the iterator, so every entry of the list is liveness-checked
\* in the pass before the readiness wait.
C14_NoEntrySkipped ==
    [][ (pc = "for_p" /\ i <= Len(procs) /\ pc' = "for_p") =>
            SubSeq(procs', i', Len(procs')) = SubSeq(procs, i + 1, Len(procs)) ]_vars

\* C15: a ready stream of a running child that holds only a partial line,
\* characters with no line terminator, is read without waiting: the read of
\* it returns what is available.
C15_PartialLineEmitted ==
    (/\ pc = "for_f" /\ j <= Len(rlist)
     /\ child[rlist[j]] = "running"
     /\ pipe[rlist[j]] # <<>>
     /\ \A n \in 1..Len(pipe[rlist[j]]) : pipe[rlist[j]][n] \notin {NL, CR})
    => ReadlineReady(rlist[j])

\* C16: a read error does not abort the run: when the program has exited
\* after one, the list has been emptied, every spawned child has been
\* drained and closed, and the status is 0.
C16_ReadErrorIsLocal ==
    (pc = "exit" /\ raised = "OSError") =>
        /\ status = 0
        /\ procs = <<>>
        /\ \A c \in Procs : Spawned(c) => closed[c]

\* C17: a stream is closed and its entry removed only once the exit of the
\* process has been observed and all of its output read to the end and
\* printed; the list holds spawned, open processes only, and a live process
\* is in the list as long as the loop runs.
C17_RemovedOnlyWhenDrained ==
    \A c \in Procs :
        /\ closed[c] =>
              /\ child[c] = "exited" /\ returncode[c] \in ExitCodes
              /\ pipe[c] = <<>> /\ buf[c] = <<>> /\ ~pendingcr[c]
              /\ OutOf(c) = Translate(written[c])
              /\ ~InList(c)
        /\ InList(c) => Spawned(c) /\ ~closed[c]
        /\ (pc \in {"while", "for_p", "select", "for_f"} /\ ~closed[c] /\ Spawned(c))
              => InList(c)

\* a child that wrote has been drained, closed and removed while another
\* child is still running in the list
C17_Witness ==
    \E c, d \in Procs :
        /\ closed[c] /\ written[c] # <<>>
        /\ InList(d) /\ child[d] = "running"

\* C18: a step of the read loop reads from the one stream of the ready set
\* it is at and from no other, each stream of the ready set is in it once,
\* and the line of a ready stream never waits behind a read that cannot
\* return.
C18_OneLinePerReadyStream ==
    /\ [][ (pc = "for_f" /\ j <= Len(rlist) /\ j' = j + 1) =>
              /\ \A d \in Procs \ {rlist[j]} :
                    pipe'[d] = pipe[d] /\ buf'[d] = buf[d]
              /\ Len(out') <= Len(out) + 1
              /\ \A n \in (Len(out) + 1)..Len(out') : out'[n].src = rlist[j] ]_vars
    /\ [](\A m, n \in 1..Len(rlist) : rlist[m] = rlist[n] => m = n)
    /\ []((pc = "for_f" /\ \E n \in (j + 1)..Len(rlist) : ReadlineReady(rlist[n]))
              => ReadlineReady(rlist[j]))

\* C19: a removal pass that began on a list holding an exited process has
\* removed a process by the time it ends, although the entry after a removed
\* one is not visited.
C19_PassRemovesOne ==
    (pc = "for_p" /\ i > Len(procs)) => pass # "owed"

\* a pass over two exited processes has ended after one visit: the first
\* was removed and the second was never yielded by the iterator
C19_Witness ==
    /\ pc = "for_p" /\ i = 2 /\ procs = <<2>>
    /\ pass = "paid" /\ closed[1]
    /\ child[2] = "exited" /\ returncode[2] < 0

\* C20: no closed stream is in the list, handed to the readiness wait or
\* about to be read; a stream is closed once, in the step that removes its
\* process from the list.
C20_NoUseAfterClose ==
    /\ [](\A n \in 1..Len(procs) : ~closed[procs[n]])
    /\ [](pc = "for_f" => \A n \in j..Len(rlist) : ~closed[rlist[n]])
    /\ [][ \A c \in Procs :
              /\ (closed'[c] /\ ~closed[c]) => (InList(c) /\ ~InListNext(c))
              /\ (InList(c) /\ ~InListNext(c)) => (~closed[c] /\ closed'[c])
              /\ closed[c] => closed'[c] ]_vars

\* a stream of the ready set is about to be read after the stream of
\* another child has been closed
C20_Witness ==
    /\ pc = "for_f" /\ j <= Len(rlist)
    /\ \E c \in Procs : closed[c]

\* C21: debug output is all-or-nothing: when any command of the batch is
\* malformed, at any position, debug mode prints nothing at all, never
\* reaches the printing loop, and the run ends with the tokenization error
\* and the error status.
C21_DebugAllOrNothing ==
    (debug /\ Malformed(commands)) =>
        /\ out = <<>>
        /\ pc \notin {"debug_print", "returned"}
        /\ pc = "exit" => (raised = "ValueError" /\ status = ErrorStatus)

\* a debug run has ended with the tokenization error and no output although
\* its first command is well formed and only the second is malformed
C21_Witness ==
    /\ debug /\ pc = "exit" /\ raised = "ValueError" /\ out = <<>>
    /\ Len(commands) >= 2
    /\ split(commands[1]).ok
    /\ ~split(commands[2]).ok

\* C22: the master-passphrase prompt is a bounded retry loop: get_password
\* prompts again only after a failed confirmation and only while the attempt
\* counter is at most 3, so it prompts at most five times (counter 0 to 4);
\* after five consecutive failed confirmations it raises ConsoleError
\* instead of prompting again; and what it returns passed the confirmation
\* of the attempt that returned it.
C22_BoundedRetry ==
    /\ [](attempts <= 4 /\ prompts <= 5)
    /\ [](pwpc = "getpass" => (attempts = mismatches /\ prompts = attempts))
    /\ [](mismatches >= 5 => (pwpc = "raised" /\ pwraised = "maximum"))
    /\ []((pwpc = "raised" /\ pwraised = "maximum") =>
             (mismatches = 5 /\ attempts = 4 /\ prompts = 5))
    /\ [](pwpc = "returned" =>
             (confirm_password(password, confirm) /\ password # <<>>))
    /\ [][ (pwpc = "check" /\ pwpc' = "getpass") =>
              (attempts <= 3 /\ ~confirm_password(password, confirm)) ]_vars

\* the fifth attempt in a row has failed its confirmation, the counter
\* stands at 4 and get_password has raised instead of prompting a sixth time
C22_Witness ==
    /\ pwpc = "raised" /\ pwraised = "maximum"
    /\ attempts = 4 /\ mismatches = 5 /\ prompts = 5
    /\ ~confirm_password(password, confirm)

=============================================================================
